---- MODULE Spec2Model ----
(***************************************************************************)
(* QR Request Manager (src/db.py, src/app.py, src/clear_db.py).            *)
(*                                                                         *)
(* The SQLite store is three tables (requests, submissions, settings) and  *)
(* the two AUTOINCREMENT counters.  Every db.py function opens its own     *)
(* connection and commits when it returns, so every db.py call is one      *)
(* transaction; add_submission's SELECT runs outside the transaction its   *)
(* INSERT opens (sqlite3 opens a transaction at the first INSERT/UPDATE/   *)
(* DELETE only).  A Streamlit script run (one browser event of one         *)
(* session) is a sequence of such calls; runs of different sessions        *)
(* interleave between calls.                                               *)
(*                                                                         *)
(* Strings are tuples of one-character strings, so that strip(), the two   *)
(* regular expressions and str()/int() are computed, not assumed.          *)
(***************************************************************************)
EXTENDS Integers, Sequences, FiniteSets, TLC

VARIABLES
    requests,            \* rows of table requests
    submissions,         \* rows of table submissions
    settings,            \* rows of table settings
    next_request_id,     \* AUTOINCREMENT of requests.id
    next_submission_id,  \* AUTOINCREMENT of submissions.id
    pub,                 \* per public session: the position of its script run in _public_form
    adm,                 \* per admin session: the position of its script run in the create handler
    reward_entries,      \* rows of the rewards ledger, in the order they were appended
    rev,                 \* per review session: the position of its script run in _review_page
    today                \* the date of datetime.utcnow(), counted in days

vars == <<requests, submissions, settings, next_request_id, next_submission_id, pub, adm,
          reward_entries, rev, today>>

\* what the public form and the admin section neither read nor write, the clock apart
others == <<reward_entries, rev, today>>

db == <<requests, submissions, settings, next_request_id, next_submission_id>>

-----------------------------------------------------------------------------
(* Bounds of the model *)

MaxRequests == 2
MaxSubmissions == 2
MaxConcurrentRequests == 1
MaxRewardEntries == 2
MaxDay == 2

\* uuid.uuid4().hex draws from 16^32 values; two stand for them, so that a draw can repeat
Tokens == {"t1", "t2"}

PublicSessions == {"p1", "p2"}

AdminSessions == {"a1", "a2"}

ReviewSessions == {"v1", "v2"}

-----------------------------------------------------------------------------
(* Strings *)

Digits == {"0", "1", "2", "3", "4", "5", "6", "7", "8", "9"}

Whitespace == {" "}

PhoneChars == Digits \cup {"+", "-", "(", ")"} \cup Whitespace

RECURSIVE LStrip(_)
LStrip(s) == IF s # <<>> /\ Head(s) \in Whitespace THEN LStrip(Tail(s)) ELSE s

RECURSIVE RStrip(_)
RStrip(s) ==
    IF s # <<>> /\ s[Len(s)] \in Whitespace THEN RStrip(SubSeq(s, 1, Len(s) - 1)) ELSE s

\* str.strip()
Strip(s) == RStrip(LStrip(s))

IsDigit(c) == c \in Digits

\* re.sub(r'[^\d]', '', phone)
digits_only(phone) == SelectSeq(phone, IsDigit)

MinPhoneLen == 7

MaxPhoneLen == 20

MinNameLen == 2

MaxNameLen == 100

MaxEmailLen == 100

\* an _is_valid_phone that tests the pattern and does not count the digits
_is_valid_phone_pattern_only(phone) ==
    /\ \A i \in 1..Len(phone) : phone[i] \in PhoneChars
    /\ Len(phone) >= MinPhoneLen
    /\ Len(phone) <= MaxPhoneLen

\* re.match(r"^[0-9+\-()\s]{7,20}$", phone) and 7 <= len(digits_only) <= 20
_is_valid_phone(phone) ==
    /\ \A i \in 1..Len(phone) : phone[i] \in PhoneChars
    /\ Len(phone) >= MinPhoneLen
    /\ Len(phone) <= MaxPhoneLen
    /\ Len(digits_only(phone)) >= MinPhoneLen
    /\ Len(digits_only(phone)) <= MaxPhoneLen

\* re.match(r"^[^@\s]+@[^@\s]+\.[^@\s]+$", email)
_is_valid_email(email) ==
    /\ \A i \in 1..Len(email) : email[i] \notin Whitespace
    /\ Cardinality({i \in 1..Len(email) : email[i] = "@"}) = 1
    /\ \E a \in 1..Len(email) :
          /\ email[a] = "@"
          /\ a > 1
          /\ \E d \in (a + 2)..(Len(email) - 1) : email[d] = "."

\* the errors list of _public_form is empty
fields_valid(name, phone, email) ==
    /\ Strip(name) # <<>>
    /\ Len(Strip(name)) >= MinNameLen
    /\ Len(Strip(name)) <= MaxNameLen
    /\ Strip(phone) # <<>>
    /\ _is_valid_phone(Strip(phone))
    /\ Strip(email) # <<>> =>
          /\ _is_valid_email(Strip(email))
          /\ Len(Strip(email)) <= MaxEmailLen

-----------------------------------------------------------------------------
(* Inputs the sessions type *)

P_555_1234 == <<"5", "5", "5", "-", "1", "2", "3", "4">>

P_5551234 == <<"5", "5", "5", "1", "2", "3", "4">>

P_short == <<"5", "5", "5">>

PhoneInputs == {P_555_1234, P_5551234, P_short}

NameInputs == {<<"A", "l">>}

EmailInputs == {<<>>}

\* st.text_input("Title"): left empty, a blank, a title
TitleInputs == {<<>>, <<" ">>, <<"A">>}

\* st.number_input("Points to Award", min_value=0, value=10)
PointsInputs == {10}

\* st.text_area("Custom QR Content"), stripped
CustomInputs == {<<>>, <<"x">>}

\* st.number_input("Number of QR codes", min_value=1, max_value=100)
NumQrInputs == 1..MaxRequests

DigitChars == <<"0", "1", "2", "3", "4", "5", "6", "7", "8", "9">>

\* str(n) of a non-negative integer
RECURSIVE str(_)
str(n) == IF n < 10 THEN <<DigitChars[n + 1]>> ELSE str(n \div 10) \o <<DigitChars[(n % 10) + 1]>>

\* f"points_{id}"
points_key(id) == <<"points_">> \o str(id)

\* f"qr_custom_{id}"
qr_custom_key(id) == <<"qr_custom_">> \o str(id)

-----------------------------------------------------------------------------
(* db.py: each operator is one SQL statement or one transaction on the tables *)

\* cur.fetchone() of a result that holds at least one row
fetchone(rows) == CHOOSE r \in rows : TRUE

\* a requests table whose token column lacks UNIQUE
token_unique_unchecked(token) == TRUE

\* requests.token TEXT UNIQUE NOT NULL: the INSERT of a row with this token is accepted
token_unique(token) == \A r \in requests : r.token # token

\* INSERT INTO requests(title, description, status, token, created_at): the new table
create_request(token) ==
    requests \cup {[id |-> next_request_id, status |-> "open", token |-> token,
                    one_time_use |-> 0, used_count |-> 0]}

\* SELECT * FROM requests WHERE token = ?
get_request_by_token(token) == {r \in requests : r.token = token}

\* UPDATE requests SET status = ? WHERE id = ?
update_request_status(request_id, status) ==
    {IF r.id = request_id THEN [r EXCEPT !.status = status] ELSE r : r \in requests}

\* a delete_request that leaves the submissions behind
delete_request_submissions_kept(request_id) == submissions

\* DELETE FROM submissions WHERE request_id = ?
delete_request_submissions(request_id) == {s \in submissions : s.request_id # request_id}

\* DELETE FROM requests WHERE id = ?
delete_request_row(request_id) == {r \in requests : r.id # request_id}

\* a duplicate SELECT whose WHERE leaves out request_id
add_submission_existing_any_request(request_id, phone) ==
    \E s \in submissions : s.phone = phone

\* SELECT id FROM submissions WHERE request_id = ? AND phone = ?: existing is not None
add_submission_existing(request_id, phone) ==
    \E s \in submissions : s.request_id = request_id /\ s.phone = phone

\* INSERT INTO submissions(request_id, name, phone, email, created_at): the new table
add_submission_insert(request_id, name, phone, email) ==
    submissions \cup {[id |-> next_submission_id, request_id |-> request_id,
                       name |-> name, phone |-> phone, email |-> email, created_at |-> today]}

\* SELECT * FROM submissions WHERE request_id = ?
list_submissions(request_id) == {s \in submissions : s.request_id = request_id}

\* an is_token_used that leaves out the one_time_use test
is_token_used_any_mode(token) ==
    LET rows == {r \in requests : r.token = token}
    IN  /\ rows # {}
        /\ fetchone(rows).used_count > 0

\* SELECT one_time_use, used_count ... WHERE token = ?; row and one_time_use == 1 and used_count > 0
is_token_used(token) ==
    LET rows == {r \in requests : r.token = token}
    IN  /\ rows # {}
        /\ fetchone(rows).one_time_use = 1
        /\ fetchone(rows).used_count > 0

\* row["one_time_use"] of the row is_token_used read, 0 when it read none
gate_row_one_time(token) ==
    LET rows == {r \in requests : r.token = token}
    IN  IF rows # {} THEN fetchone(rows).one_time_use ELSE 0

\* a mark_token_used that counts down
mark_token_used_decrement(token) ==
    {IF r.token = token THEN [r EXCEPT !.used_count = @ - 1] ELSE r : r \in requests}

\* a mark_token_used whose UPDATE matches no row
mark_token_used_no_row(token) == requests

\* UPDATE requests SET used_count = used_count + 1 WHERE token = ?
mark_token_used(token) ==
    {IF r.token = token THEN [r EXCEPT !.used_count = @ + 1] ELSE r : r \in requests}

\* UPDATE requests SET one_time_use = ? WHERE id = ?   (1 if one_time else 0)
set_one_time_use(request_id, one_time) ==
    {IF r.id = request_id THEN [r EXCEPT !.one_time_use = IF one_time THEN 1 ELSE 0] ELSE r
       : r \in requests}

\* INSERT INTO settings(key, value) ... ON CONFLICT(key) DO UPDATE SET value=excluded.value
set_setting(key, value) ==
    {row \in settings : row.key # key} \cup {[key |-> key, value |-> value]}

\* SELECT value FROM settings WHERE key = ?
get_setting(key, default) ==
    LET rows == {row \in settings : row.key = key}
    IN  IF rows # {} THEN fetchone(rows).value ELSE default

\* DELETE FROM submissions; DELETE FROM requests; DELETE FROM settings
wipe_database ==
    /\ submissions' = {}
    /\ requests' = {}
    /\ settings' = {}
    /\ UNCHANGED <<next_request_id, next_submission_id>>

-----------------------------------------------------------------------------
(* Script runs *)

IdlePub ==
    [pc |-> "idle", token |-> "", rid |-> 0, submit |-> FALSE, one_time |-> 0,
     name |-> <<>>, phone |-> <<>>, email |-> <<>>, outcome |-> ""]

IdleAdm ==
    [pc |-> "idle", title |-> <<>>, rid |-> 0, token |-> "", left |-> 0, points |-> <<>>,
     one_time_use |-> FALSE, custom |-> <<>>, outcome |-> ""]

\* st.text_input("Filter by Name"), st.text_input("Filter by Mobile"), the date range: unset
NoFilter ==
    [name_filter |-> <<>>, phone_filter |-> <<>>, use_date |-> FALSE, start_date |-> 0, end_date |-> 0]

IdleRev ==
    [pc |-> "idle", filter |-> NoFilter, all_requests |-> <<>>, all_filtered_rows |-> <<>>,
     agg |-> {}, outcome |-> ""]

InFlight(rec) == rec.pc \notin {"idle", "done"}

\* no session shows the page of a run that has just ended: the end of a run touches nothing
\* that is shared, so it is taken as soon as the run's last call has returned
Settled ==
    /\ \A p \in PublicSessions : pub[p].pc # "done"
    /\ \A a \in AdminSessions : adm[a].pc # "done"
    /\ \A v \in ReviewSessions : rev[v].pc # "done"

\* no script run is under way
Quiet ==
    /\ \A p \in PublicSessions : ~InFlight(pub[p])
    /\ \A a \in AdminSessions : ~InFlight(adm[a])
    /\ \A v \in ReviewSessions : ~InFlight(rev[v])

Init ==
    /\ requests = {}
    /\ submissions = {}
    /\ settings = {}
    /\ next_request_id = 1
    /\ next_submission_id = 1
    /\ pub = [p \in PublicSessions |-> IdlePub]
    /\ adm = [a \in AdminSessions |-> IdleAdm]
    /\ reward_entries = <<>>
    /\ rev = [v \in ReviewSessions |-> IdleRev]
    /\ today = 1

(* _public_form *)

\* req = get_request_by_token(token); "Invalid or expired token" / "This form is currently closed"
PublicOpen(p, token, submit) ==
    /\ pub[p].pc = "idle"
    /\ Settled
    /\ LET req == get_request_by_token(token)
       IN  pub' = [pub EXCEPT ![p] =
              IF req = {}
              THEN [IdlePub EXCEPT !.pc = "done", !.token = token, !.submit = submit,
                                   !.outcome = "UNKNOWN_TOKEN"]
              ELSE IF fetchone(req).status # "open"
              THEN [IdlePub EXCEPT !.pc = "done", !.token = token, !.submit = submit,
                                   !.rid = fetchone(req).id, !.outcome = "CLOSED"]
              ELSE [IdlePub EXCEPT !.pc = "gate", !.token = token, !.submit = submit,
                                   !.rid = fetchone(req).id]]
    /\ UNCHANGED <<db, adm>>
    /\ UNCHANGED others

\* submissions that runs past the duplicate check are still to insert
PendingInserts == Cardinality({p \in PublicSessions : pub[p].pc = "insert"})

\* if is_token_used(token): the expired page; else the form is rendered
PublicGate(p) ==
    /\ Settled
    /\ pub[p].pc = "gate"
    /\ pub' = [pub EXCEPT ![p] =
          IF is_token_used(pub[p].token)
          THEN [@ EXCEPT !.pc = "done", !.outcome = "EXHAUSTED"]
          ELSE IF ~pub[p].submit
          THEN [@ EXCEPT !.pc = "done", !.outcome = "USABLE"]
          ELSE [@ EXCEPT !.pc = "validate", !.one_time = gate_row_one_time(pub[p].token)]]
    /\ UNCHANGED <<db, adm>>
    /\ UNCHANGED others

\* if submit: the validation of the fields, then add_submission's duplicate SELECT
PublicValidate(p, name, phone, email) ==
    /\ Settled
    /\ pub[p].pc = "validate"
    /\ (fields_valid(name, phone, email) /\ ~add_submission_existing(pub[p].rid, Strip(phone)))
          => next_submission_id + PendingInserts <= MaxSubmissions
    /\ pub' = [pub EXCEPT ![p] =
          IF ~fields_valid(name, phone, email)
          THEN [@ EXCEPT !.pc = "done", !.outcome = "INVALID",
                         !.name = name, !.phone = phone, !.email = email]
          ELSE IF add_submission_existing(pub[p].rid, Strip(phone))
          THEN [@ EXCEPT !.pc = "done", !.outcome = "DUPLICATE",
                         !.name = Strip(name), !.phone = Strip(phone), !.email = Strip(email)]
          ELSE [@ EXCEPT !.pc = "insert",
                         !.name = Strip(name), !.phone = Strip(phone), !.email = Strip(email)]]
    /\ UNCHANGED <<db, adm>>
    /\ UNCHANGED others

\* add_submission's INSERT, committed when add_submission returns
PublicInsert(p) ==
    /\ Settled
    /\ pub[p].pc = "insert"
    /\ submissions' = add_submission_insert(pub[p].rid, pub[p].name, pub[p].phone, pub[p].email)
    /\ next_submission_id' = next_submission_id + 1
    /\ pub' = [pub EXCEPT ![p].pc = "mark"]
    /\ UNCHANGED <<requests, settings, next_request_id, adm>>
    /\ UNCHANGED others

\* mark_token_used(token), then the success page
PublicMark(p) ==
    /\ Settled
    /\ pub[p].pc = "mark"
    /\ requests' = mark_token_used(pub[p].token)
    /\ pub' = [pub EXCEPT ![p].pc = "done", ![p].outcome = "ACCEPTED"]
    /\ UNCHANGED <<submissions, settings, next_request_id, next_submission_id, adm>>
    /\ UNCHANGED others

\* the script run has ended; the session waits for its next event
PublicEnd(p) ==
    /\ pub[p].pc = "done"
    /\ pub' = [pub EXCEPT ![p] = IdlePub]
    /\ UNCHANGED <<db, adm>>
    /\ UNCHANGED others

(* _admin_section: the create form *)

\* the run goes on to its next request, or ends with "Created n request(s)"
NextRequest(rec) ==
    IF rec.left > 0 THEN [rec EXCEPT !.pc = "create"] ELSE [rec EXCEPT !.pc = "done", !.outcome = "CREATED"]

\* a title test that does not trim
title_missing_untrimmed(title) == title = <<>>

\* if not title.strip()
title_missing(title) == Strip(title) = <<>>

\* if create_btn: "Title is required", or the loop over int(num_qr) requests
AdminCreateSubmit(a, title, num_qr, points, one_time_use, custom) ==
    /\ adm[a].pc = "idle"
    /\ Settled
    /\ adm' = [adm EXCEPT ![a] =
          IF title_missing(title)
          THEN [IdleAdm EXCEPT !.pc = "done", !.title = title, !.outcome = "TITLE_REQUIRED"]
          ELSE [IdleAdm EXCEPT !.pc = "create", !.title = title, !.left = num_qr,
                               !.points = str(points), !.one_time_use = one_time_use,
                               !.custom = IF num_qr = 1 THEN Strip(custom) ELSE <<>>]]
    /\ UNCHANGED <<db, pub>>
    /\ UNCHANGED others

\* token = uuid.uuid4().hex; req = create_request(title, description, token)
AdminCreateRequest(a, token) ==
    /\ adm[a].pc = "create"
    /\ Settled
    /\ IF token_unique(token)
       THEN /\ requests' = create_request(token)
            /\ next_request_id' = next_request_id + 1
            /\ adm' = [adm EXCEPT ![a].pc = "points",
                                  ![a].rid = next_request_id,
                                  ![a].token = token,
                                  ![a].left = @ - 1]
       ELSE \* sqlite3.IntegrityError, not caught: the run ends with the traceback
            /\ adm' = [adm EXCEPT ![a].pc = "done", ![a].outcome = "FAILED"]
            /\ UNCHANGED <<requests, next_request_id>>
    /\ UNCHANGED <<submissions, settings, next_submission_id, pub>>
    /\ UNCHANGED others

\* set_setting(f"points_{req['id']}", str(points))
AdminSetPoints(a) ==
    /\ adm[a].pc = "points"
    /\ Settled
    /\ settings' = set_setting(points_key(adm[a].rid), adm[a].points)
    /\ adm' = [adm EXCEPT ![a].pc = "otu"]
    /\ UNCHANGED <<requests, submissions, next_request_id, next_submission_id, pub>>
    /\ UNCHANGED others

\* set_one_time_use(req["id"], one_time_use)
AdminSetOneTimeUse(a) ==
    /\ adm[a].pc = "otu"
    /\ Settled
    /\ requests' = set_one_time_use(adm[a].rid, adm[a].one_time_use)
    /\ adm' = [adm EXCEPT ![a] = IF adm[a].custom # <<>> THEN [@ EXCEPT !.pc = "custom"] ELSE NextRequest(@)]
    /\ UNCHANGED <<submissions, settings, next_request_id, next_submission_id, pub>>
    /\ UNCHANGED others

\* if qr_type == "Custom Text" and custom_qr_text.strip(): set_setting(f"qr_custom_{req['id']}", ...)
AdminSetCustom(a) ==
    /\ adm[a].pc = "custom"
    /\ Settled
    /\ settings' = set_setting(qr_custom_key(adm[a].rid), adm[a].custom)
    /\ adm' = [adm EXCEPT ![a] = NextRequest(@)]
    /\ UNCHANGED <<requests, submissions, next_request_id, next_submission_id, pub>>
    /\ UNCHANGED others

\* the script run has ended
AdminEnd(a) ==
    /\ adm[a].pc = "done"
    /\ adm' = [adm EXCEPT ![a] = IdleAdm]
    /\ UNCHANGED <<db, pub>>
    /\ UNCHANGED others

\* st.button("Close"): update_request_status(r["id"], "closed")
AdminClose(request_id) ==
    /\ Settled
    /\ requests' = update_request_status(request_id, "closed")
    /\ UNCHANGED <<submissions, settings, next_request_id, next_submission_id, pub, adm>>
    /\ UNCHANGED others

\* st.button("Reopen"): update_request_status(r["id"], "open")
AdminReopen(request_id) ==
    /\ Settled
    /\ requests' = update_request_status(request_id, "open")
    /\ UNCHANGED <<submissions, settings, next_request_id, next_submission_id, pub, adm>>
    /\ UNCHANGED others

\* both DELETE statements of delete_request, one transaction
delete_request(request_id) ==
    /\ submissions' = delete_request_submissions(request_id)
    /\ requests' = delete_request_row(request_id)
    /\ UNCHANGED <<settings, next_request_id, next_submission_id>>

\* st.button("Delete"): delete_request(r["id"])
AdminDelete(request_id) ==
    /\ Settled
    /\ delete_request(request_id)
    /\ UNCHANGED <<pub, adm>>
    /\ UNCHANGED others

\* the Danger Zone: the button is disabled unless "DELETE" is typed and the backup box is ticked
AdminWipe(confirm_text, perform_backup) ==
    /\ Settled
    /\ LET disabled == confirm_text # "DELETE" \/ ~perform_backup
           delete_btn == ~disabled
       IN  IF delete_btn THEN wipe_database ELSE UNCHANGED db
    /\ UNCHANGED <<pub, adm>>
    /\ UNCHANGED others

\* clear_db.py main(): the three DELETEs, committed together
ClearDbMain ==
    /\ Settled
    /\ submissions' = {}
    /\ requests' = {}
    /\ settings' = {}
    /\ UNCHANGED <<next_request_id, next_submission_id, pub, adm>>
    /\ UNCHANGED others

ConfirmInputs == {"", "DELETE"}

(* _review_page *)

UpperChars ==
    <<"A", "B", "C", "D", "E", "F", "G", "H", "I", "J", "K", "L", "M",
      "N", "O", "P", "Q", "R", "S", "T", "U", "V", "W", "X", "Y", "Z">>

LowerChars ==
    <<"a", "b", "c", "d", "e", "f", "g", "h", "i", "j", "k", "l", "m",
      "n", "o", "p", "q", "r", "s", "t", "u", "v", "w", "x", "y", "z">>

\* str.lower() of one character
lower_char(c) ==
    IF \E i \in 1..Len(UpperChars) : UpperChars[i] = c
    THEN LowerChars[CHOOSE i \in 1..Len(UpperChars) : UpperChars[i] = c]
    ELSE c

\* str.lower()
lower(s) == [i \in 1..Len(s) |-> lower_char(s[i])]

\* sub in s, of two strings
contains(s, sub) == \E i \in 0..(Len(s) - Len(sub)) : SubSeq(s, i + 1, i + Len(sub)) = sub

\* max(a, b)
Max(a, b) == IF a >= b THEN a ELSE b

\* ORDER BY created_at DESC: the rows of a result, the newest first
RECURSIVE newest_first(_)
newest_first(rows) ==
    IF rows = {} THEN <<>>
    ELSE LET r == CHOOSE x \in rows : \A y \in rows : y.id <= x.id
         IN  <<r>> \o newest_first(rows \ {r})

\* SELECT * FROM requests ORDER BY created_at DESC
list_requests == newest_first(requests)

\* the value of one decimal digit
digit_value(c) == (CHOOSE i \in 1..Len(DigitChars) : DigitChars[i] = c) - 1

\* int(s) of a string of decimal digits
RECURSIVE int(_)
int(s) ==
    IF Len(s) = 1 THEN digit_value(s[1])
    ELSE 10 * int(SubSeq(s, 1, Len(s) - 1)) + digit_value(s[Len(s)])

\* try: req_points = int(points_str or 0); except ValueError: req_points = 0
req_points(points_str) ==
    IF points_str = <<>> THEN 0
    ELSE IF \A i \in 1..Len(points_str) : points_str[i] \in Digits THEN int(points_str)
    ELSE 0

\* if start_date and end_date and start_date > end_date: both are set to None (0 here)
date_range(use_date, start_date, end_date) ==
    IF ~use_date \/ start_date > end_date
    THEN [use_date |-> use_date, start_date |-> 0, end_date |-> 0]
    ELSE [use_date |-> use_date, start_date |-> start_date, end_date |-> end_date]

\* _matches_filters(s, req_id)
_matches_filters(s, filter) ==
    /\ filter.name_filter # <<>> => contains(lower(s.name), lower(Strip(filter.name_filter)))
    /\ filter.phone_filter # <<>> => contains(s.phone, Strip(filter.phone_filter))
    /\ (filter.use_date /\ (filter.start_date # 0 \/ filter.end_date # 0))
          => /\ filter.start_date # 0 => s.created_at >= filter.start_date
             /\ filter.end_date # 0 => s.created_at <= filter.end_date

\* the rows the loop over all_requests appends to all_filtered_rows for one request
filtered_rows(req, filter) ==
    LET subs == newest_first(list_submissions(req.id))
        points == req_points(get_setting(points_key(req.id), <<"0">>))
        Matches(sub) == _matches_filters(sub, filter)
        filtered_subs == SelectSeq(subs, Matches)
    IN  [i \in 1..Len(filtered_subs) |-> <<filtered_subs[i].name, filtered_subs[i].phone, points>>]

(* the rewards ledger of db.py *)

\* INSERT INTO rewards(name, phone, points, reason, created_at)
add_reward_entry(name, phone, points, reason) ==
    /\ Settled
    /\ name # <<>> /\ phone # <<>>
    /\ reward_entries' =
          Append(reward_entries, [name |-> name, phone |-> phone, points |-> points, reason |-> reason])
    /\ UNCHANGED <<db, pub, adm, rev, today>>

\* the sum of points over the first n rows of the ledger for (name, phone)
RECURSIVE adjustment_sum(_, _, _)
adjustment_sum(n, name, phone) ==
    IF n = 0 THEN 0
    ELSE adjustment_sum(n - 1, name, phone)
         + (IF reward_entries[n].name = name /\ reward_entries[n].phone = phone
            THEN reward_entries[n].points ELSE 0)

\* SELECT COALESCE(SUM(points), 0) FROM rewards WHERE name = ? AND phone = ?
get_rewards_adjustment_sum(name, phone) == adjustment_sum(Len(reward_entries), name, phone)

(* the aggregation of _review_page *)

\* agg[key]["Earned Points"] after the loop over the first n rows
RECURSIVE earned_points(_, _, _)
earned_points(rows, n, key) ==
    IF n = 0 THEN 0
    ELSE earned_points(rows, n - 1, key)
         + (IF <<rows[n][1], rows[n][2]>> = key THEN Max(0, rows[n][3]) ELSE 0)

\* a balance that is not floored
balance_unfloored(earned, adj) == earned + adj

\* row["Balance"] = max(0, int(row["Earned Points"]) + int(adj))
balance(earned, adj) == Max(0, earned + adj)

\* agg[key] after both loops
agg_row(rows, key) ==
    LET earned == earned_points(rows, Len(rows), key)
        adj == get_rewards_adjustment_sum(key[1], key[2])
    IN  ("Name" :> key[1]) @@ ("Phone" :> key[2]) @@ ("Earned Points" :> earned)
        @@ ("Adjustments" :> adj) @@ ("Balance" :> balance(earned, adj))
        @@ ("Submissions" :> Cardinality({i \in 1..Len(rows) : <<rows[i][1], rows[i][2]>> = key}))

\* an aggregation keyed by the lower-cased name
agg_values_lowercase(rows) ==
    {agg_row([i \in 1..Len(rows) |-> <<lower(rows[i][1]), rows[i][2], rows[i][3]>>],
             <<lower(rows[j][1]), rows[j][2]>>) : j \in 1..Len(rows)}

\* list(agg.values())
agg_values(rows) == {agg_row(rows, <<rows[i][1], rows[i][2]>>) : i \in 1..Len(rows)}

\* the key function of agg_rows.sort raises KeyError: a row has no "Total Points"
sort_raises(agg_rows) == \E row \in agg_rows : "Total Points" \notin DOMAIN row

\* all_requests = list_requests(); "No requests found."; the filters as the widgets give them
ReviewOpen(v, name_filter, phone_filter, use_date, start_date, end_date) ==
    /\ rev[v].pc = "idle"
    /\ Settled
    /\ rev' = [rev EXCEPT ![v] =
          IF list_requests = <<>>
          THEN [IdleRev EXCEPT !.pc = "done", !.outcome = "NO_REQUESTS"]
          ELSE [IdleRev EXCEPT !.pc = "collect", !.all_requests = list_requests,
                               !.filter = [name_filter |-> name_filter, phone_filter |-> phone_filter]
                                          @@ date_range(use_date, start_date, end_date)]]
    /\ UNCHANGED <<db, pub, adm, reward_entries, today>>

\* one round of the loop over all_requests: list_submissions, get_setting, the filters; after
\* the last round, "No matching submissions for the selected filters."
ReviewCollect(v) ==
    /\ rev[v].pc = "collect"
    /\ Settled
    /\ LET req == Head(rev[v].all_requests)
           rows == rev[v].all_filtered_rows \o filtered_rows(req, rev[v].filter)
           rest == Tail(rev[v].all_requests)
       IN  rev' = [rev EXCEPT ![v] =
              IF rest # <<>>
              THEN [@ EXCEPT !.all_requests = rest, !.all_filtered_rows = rows]
              ELSE IF rows = <<>>
              THEN [@ EXCEPT !.pc = "done", !.all_requests = rest, !.outcome = "NO_ROWS"]
              ELSE [@ EXCEPT !.pc = "aggregate", !.all_requests = rest, !.all_filtered_rows = rows]]
    /\ UNCHANGED <<db, pub, adm, reward_entries, today>>

\* the two loops that fill agg: the earned points, then the adjustments and the balance
ReviewAggregate(v) ==
    /\ rev[v].pc = "aggregate"
    /\ Settled
    /\ rev' = [rev EXCEPT ![v].pc = "sort", ![v].agg = agg_values(rev[v].all_filtered_rows)]
    /\ UNCHANGED <<db, pub, adm, reward_entries, today>>

\* agg_rows.sort(...); past it, the table and the Reward Actions form
ReviewSort(v) ==
    /\ rev[v].pc = "sort"
    /\ Settled
    /\ rev' = [rev EXCEPT ![v].pc = "done",
                          ![v].outcome = IF sort_raises(rev[v].agg) THEN "KeyError" ELSE "REWARD_ACTIONS"]
    /\ UNCHANGED <<db, pub, adm, reward_entries, today>>

\* the script run has ended
ReviewEnd(v) ==
    /\ rev[v].pc = "done"
    /\ rev' = [rev EXCEPT ![v] = IdleRev]
    /\ UNCHANGED <<db, pub, adm, reward_entries, today>>

\* datetime.utcnow() passes midnight
Midnight ==
    /\ Settled
    /\ today' = today + 1
    /\ UNCHANGED <<db, pub, adm, reward_entries, rev>>

-----------------------------------------------------------------------------
(* Specifications *)

\* requests the create runs under way are still to insert
PendingCreates == Cardinality({a \in AdminSessions : adm[a].pc = "create"})

\* the create form is submitted only while ids up to max remain for its requests
RequestRoom(num_qr, max) == next_request_id + PendingCreates + num_qr - 1 <= max

\* ids an admin page lists, or listed when the clicked button was drawn
RequestIds(max) == 1..max

\* the steps of the runs under way, whichever sessions run
Steps ==
    \/ \E p \in PublicSessions : PublicGate(p)
    \/ \E p \in PublicSessions, name \in NameInputs, phone \in PhoneInputs, email \in EmailInputs :
          PublicValidate(p, name, phone, email)
    \/ \E p \in PublicSessions : PublicInsert(p)
    \/ \E p \in PublicSessions : PublicMark(p)
    \/ \E p \in PublicSessions : PublicEnd(p)
    \/ \E a \in AdminSessions, token \in Tokens : AdminCreateRequest(a, token)
    \/ \E a \in AdminSessions : AdminSetPoints(a)
    \/ \E a \in AdminSessions : AdminSetOneTimeUse(a)
    \/ \E a \in AdminSessions : AdminSetCustom(a)
    \/ \E a \in AdminSessions : AdminEnd(a)

\* one run at a time: a session's event is handled only when no run is under way
NextSerial ==
    \/ Steps
    \/ \E token \in Tokens, submit \in BOOLEAN : Quiet /\ PublicOpen("p1", token, submit)
    \/ \E title \in TitleInputs, num_qr \in NumQrInputs, points \in PointsInputs,
          one_time_use \in BOOLEAN, custom \in CustomInputs :
          Quiet /\ RequestRoom(num_qr, MaxRequests)
                /\ AdminCreateSubmit("a1", title, num_qr, points, one_time_use, custom)
    \/ \E request_id \in RequestIds(MaxRequests) : Quiet /\ AdminClose(request_id)
    \/ \E request_id \in RequestIds(MaxRequests) : Quiet /\ AdminReopen(request_id)
    \/ \E request_id \in RequestIds(MaxRequests) : Quiet /\ AdminDelete(request_id)
    \/ \E confirm_text \in ConfirmInputs, perform_backup \in BOOLEAN :
          Quiet /\ AdminWipe(confirm_text, perform_backup)
    \/ Quiet /\ ClearDbMain

SpecSerial == Init /\ [][NextSerial]_vars

\* the create run draws the QR code of a token only after its set_setting and set_one_time_use
\* calls: no public session holds the token of a request whose create run is still under way
Shown(token) == \A a \in AdminSessions : InFlight(adm[a]) => adm[a].token # token

\* two public sessions and an admin session, their runs interleaved call by call
Next ==
    \/ Steps
    \/ \E p \in PublicSessions, token \in Tokens, submit \in BOOLEAN :
          Shown(token) /\ PublicOpen(p, token, submit)
    \/ \E title \in TitleInputs, points \in PointsInputs, one_time_use \in BOOLEAN, custom \in CustomInputs :
          RequestRoom(1, MaxConcurrentRequests)
          /\ AdminCreateSubmit("a1", title, 1, points, one_time_use, custom)
    \/ \E request_id \in RequestIds(MaxConcurrentRequests) : AdminClose(request_id)
    \/ \E request_id \in RequestIds(MaxConcurrentRequests) : AdminReopen(request_id)
    \/ \E request_id \in RequestIds(MaxConcurrentRequests) : AdminDelete(request_id)

Spec == Init /\ [][Next]_vars

\* two admin sessions, their create runs interleaved call by call, and the Delete button
NextAdmin ==
    \/ \E a \in AdminSessions, token \in Tokens : AdminCreateRequest(a, token)
    \/ \E a \in AdminSessions : AdminSetPoints(a)
    \/ \E a \in AdminSessions : AdminSetOneTimeUse(a)
    \/ \E a \in AdminSessions : AdminSetCustom(a)
    \/ \E a \in AdminSessions : AdminEnd(a)
    \/ \E a \in AdminSessions, title \in TitleInputs, num_qr \in NumQrInputs, points \in PointsInputs,
          one_time_use \in BOOLEAN, custom \in CustomInputs :
          RequestRoom(num_qr, MaxRequests)
          /\ AdminCreateSubmit(a, title, num_qr, points, one_time_use, custom)
    \/ \E request_id \in RequestIds(MaxRequests) : AdminDelete(request_id)

SpecAdmin == Init /\ [][NextAdmin]_vars

\* the steps of the runs of the sessions "a1" (a single request, no custom text) and "p1"
FormSteps ==
    \/ \E token \in Tokens : AdminCreateRequest("a1", token)
    \/ AdminSetPoints("a1")
    \/ AdminSetOneTimeUse("a1")
    \/ AdminEnd("a1")
    \/ PublicGate("p1")
    \/ PublicInsert("p1")
    \/ PublicMark("p1")
    \/ PublicEnd("p1")

\* the steps of the runs of the sessions "a1", "p1" and "v1"
ReviewSteps ==
    \/ FormSteps
    \/ ReviewCollect("v1")
    \/ ReviewAggregate("v1")
    \/ ReviewSort("v1")
    \/ ReviewEnd("v1")

\* st.number_input("Adjustment points (negative to deduct)")
AdjustmentInputs == {-15, 5}

\* st.text_input("Reason")
ReasonInputs == {"redeemed"}

\* the phones of the identities the ledger is kept for
RewardPhoneInputs == {P_5551234, P_555_1234}

\* one run at a time: requests, submissions, ledger entries, and the review page unfiltered
NextRewards ==
    \/ ReviewSteps
    \/ \E name \in NameInputs, phone \in RewardPhoneInputs, email \in EmailInputs :
          PublicValidate("p1", name, phone, email)
    \/ \E points \in PointsInputs :
          Quiet /\ RequestRoom(1, MaxRequests)
                /\ AdminCreateSubmit("a1", <<"A">>, 1, points, FALSE, <<>>)
    \/ \E token \in Tokens : Quiet /\ PublicOpen("p1", token, TRUE)
    \/ \E name \in NameInputs, phone \in RewardPhoneInputs, points \in AdjustmentInputs,
          reason \in ReasonInputs :
          Quiet /\ Len(reward_entries) < MaxRewardEntries
                /\ add_reward_entry(name, phone, points, reason)
    \/ Quiet /\ ReviewOpen("v1", <<>>, <<>>, FALSE, 0, 0)

SpecRewards == Init /\ [][NextRewards]_vars

\* the names and phones typed into the public form by the people the review page tells apart
IdentityInputs ==
    {[name |-> <<"A", "l">>, phone |-> P_5551234],
     [name |-> <<"a", "l">>, phone |-> P_5551234],
     [name |-> <<"A", "l">>, phone |-> P_555_1234]}

\* st.number_input("Points to Award", min_value=0, value=10), two values of it
ReviewPointsInputs == {5, 10}

\* the filter widgets of the review page: unset, a name, a mobile, a date range, and a date
\* range whose start is after its end
FilterInputs ==
    {[name_filter |-> <<>>, phone_filter |-> <<>>, use_date |-> FALSE, start_date |-> 0, end_date |-> 0],
     [name_filter |-> <<"A">>, phone_filter |-> <<>>, use_date |-> FALSE, start_date |-> 0, end_date |-> 0],
     [name_filter |-> <<>>, phone_filter |-> <<"-">>, use_date |-> FALSE, start_date |-> 0, end_date |-> 0],
     [name_filter |-> <<>>, phone_filter |-> <<>>, use_date |-> TRUE, start_date |-> 1, end_date |-> 1],
     [name_filter |-> <<>>, phone_filter |-> <<>>, use_date |-> TRUE, start_date |-> 2, end_date |-> 1]}

\* one run at a time: requests of different points, submissions on different days, and the
\* review page under each filter
NextReview ==
    \/ ReviewSteps
    \/ \E who \in IdentityInputs, email \in EmailInputs :
          PublicValidate("p1", who.name, who.phone, email)
    \/ \E points \in ReviewPointsInputs :
          Quiet /\ RequestRoom(1, MaxRequests)
                /\ AdminCreateSubmit("a1", <<"A">>, 1, points, FALSE, <<>>)
    \/ \E token \in Tokens : Quiet /\ PublicOpen("p1", token, TRUE)
    \/ Quiet /\ today < MaxDay /\ Midnight
    \/ \E f \in FilterInputs :
          Quiet /\ ReviewOpen("v1", f.name_filter, f.phone_filter, f.use_date, f.start_date, f.end_date)

SpecReview == Init /\ [][NextReview]_vars

\* the explicit confirmation of the Danger Zone: "DELETE" typed and the backup box ticked
Confirmed(confirm_text, perform_backup) == confirm_text = "DELETE" /\ perform_backup

\* one run at a time, and nobody ever confirms a wipe: the Danger Zone is left unconfirmed,
\* and clear_db.py is run
NextUnconfirmed ==
    \/ Steps
    \/ \E token \in Tokens, submit \in BOOLEAN : Quiet /\ PublicOpen("p1", token, submit)
    \/ \E title \in TitleInputs, num_qr \in NumQrInputs, points \in PointsInputs,
          one_time_use \in BOOLEAN, custom \in CustomInputs :
          Quiet /\ RequestRoom(num_qr, MaxRequests)
                /\ AdminCreateSubmit("a1", title, num_qr, points, one_time_use, custom)
    \/ \E confirm_text \in ConfirmInputs, perform_backup \in BOOLEAN :
          Quiet /\ ~Confirmed(confirm_text, perform_backup) /\ AdminWipe(confirm_text, perform_backup)
    \/ Quiet /\ ClearDbMain

SpecUnconfirmed == Init /\ [][NextUnconfirmed]_vars

\* a string of n characters c
Repeat(c, n) == [i \in 1..n |-> c]

\* st.text_input("Full Name *"): empty, blank, too short, at the limits, too long
ValidateNames ==
    {<<>>, <<" ">>, <<"A">>, <<" ", "A", " ">>, <<"A", "l">>, <<" ", "A", "l", " ">>,
     Repeat("a", 100), Repeat("a", 101)}

\* st.text_input("Mobile Number *"): empty, short, few digits among the allowed characters,
\* a letter, formatted, padded, at the limits, too long
ValidatePhones ==
    {<<>>, P_short, <<"5", "5", "5", "-", "1", "2">>, <<"5", "5", "5", "-", "(", "1", "2", ")">>,
     <<"5", "5", "5", "1", "2", "3", "a">>, P_5551234, P_555_1234, <<" ">> \o P_5551234 \o <<" ">>,
     <<"+", "1", " ", "(", "5", "5", "5", ")", " ", "1", "2", "3", "4">>,
     Repeat("5", 20), Repeat("5", 21), <<"+">> \o Repeat("5", 20)}

\* st.text_input("Email Address (Optional)"): empty, blank, well-formed, padded, parts
\* missing, two "@", a blank inside, at the length limit, too long
ValidateEmails ==
    {<<>>, <<" ">>, <<"a", "@", "b", ".", "c">>, <<" ", "a", "@", "b", ".", "c", " ">>,
     <<"a", "@", "b">>, <<"a", "b", ".", "c">>, <<"@", "b", ".", "c">>, <<"a", "@", ".", "c">>,
     <<"a", "@", "b", ".">>, <<"a", "@", "b", "@", "c", ".", "d">>, <<"a", " ", "b", "@", "c", ".", "d">>,
     <<"a", "@", ".", ".", "c">>,
     Repeat("a", 96) \o <<"@", "b", ".", "c">>, Repeat("a", 97) \o <<"@", "b", ".", "c">>}

\* the fields of one submit: one field varied beside two that are valid, and all three invalid
ValidationInputs ==
    {[name |-> n, phone |-> P_5551234, email |-> <<>>] : n \in ValidateNames}
    \cup {[name |-> <<"A", "l">>, phone |-> ph, email |-> <<>>] : ph \in ValidatePhones}
    \cup {[name |-> <<"A", "l">>, phone |-> P_5551234, email |-> e] : e \in ValidateEmails}
    \cup {[name |-> <<"A">>, phone |-> P_short, email |-> <<"a", "@", "b">>]}

\* one run at a time: requests, and submit runs with each of the fields above
NextValidate ==
    \/ FormSteps
    \/ \E f \in ValidationInputs : PublicValidate("p1", f.name, f.phone, f.email)
    \/ \E points \in PointsInputs, one_time_use \in BOOLEAN :
          Quiet /\ RequestRoom(1, MaxRequests)
                /\ AdminCreateSubmit("a1", <<"A">>, 1, points, one_time_use, <<>>)
    \/ \E token \in Tokens : Quiet /\ PublicOpen("p1", token, TRUE)

SpecValidate == Init /\ [][NextValidate]_vars

\* two admins on the review page at once: the runs of "v1" and "v2" interleave, over the
\* submissions of one identity
NextPay ==
    \/ FormSteps
    \/ \E name \in NameInputs, email \in EmailInputs : PublicValidate("p1", name, P_5551234, email)
    \/ \E points \in ReviewPointsInputs :
          Quiet /\ RequestRoom(1, MaxRequests)
                /\ AdminCreateSubmit("a1", <<"A">>, 1, points, FALSE, <<>>)
    \/ \E token \in Tokens : Quiet /\ PublicOpen("p1", token, TRUE)
    \/ \E v \in ReviewSessions : ReviewOpen(v, <<>>, <<>>, FALSE, 0, 0)
    \/ \E v \in ReviewSessions : ReviewCollect(v)
    \/ \E v \in ReviewSessions : ReviewAggregate(v)
    \/ \E v \in ReviewSessions : ReviewSort(v)
    \/ \E v \in ReviewSessions : ReviewEnd(v)

SpecPay == Init /\ [][NextPay]_vars

-----------------------------------------------------------------------------
(* Claims *)

\* the run of session p has inserted its Submission
Inserted(p) == pub[p].pc = "mark" \/ (pub[p].pc = "done" /\ pub[p].outcome = "ACCEPTED")

\* C1: of the submission attempts that run concurrently against one open one-time-use token
\* whose usedCount is 0, with pairwise distinct phones, exactly one is accepted: no two runs
\* that both read the token as one-time use and not yet used both insert a Submission.
C1_OneTimeTokenAcceptsOnce ==
    \A p, q \in PublicSessions :
        ~ /\ p # q
          /\ Inserted(p) /\ Inserted(q)
          /\ pub[p].token = pub[q].token /\ pub[p].rid = pub[q].rid
          /\ pub[p].one_time = 1 /\ pub[q].one_time = 1
          /\ pub[p].phone # pub[q].phone
          /\ Cardinality(list_submissions(pub[p].rid)) > 1

\* C2: in every reachable state no two stored Submissions have the same requestId and the
\* identical phone string.
C2_NoDuplicatePhonePerRequest ==
    \A s1, s2 \in submissions :
        (s1.request_id = s2.request_id /\ s1.phone = s2.phone) => s1 = s2

\* C3: in every reachable state each live request's usedCount equals the number of
\* Submissions stored for it: the insert and the increment are one atomic step.
C3_UsedCountIsSubmissionCount ==
    \A r \in requests : r.used_count = Cardinality(list_submissions(r.id))

\* the row of the live request with this token, one row under the UNIQUE constraint
RequestOf(token) == fetchone(get_request_by_token(token))

\* the classification of a token by request, status, one-time flag and usage counter
ClaimedGateOutcome(token) ==
    IF \A r \in requests : r.token # token THEN "UNKNOWN_TOKEN"
    ELSE IF RequestOf(token).status # "open" THEN "CLOSED"
    ELSE IF RequestOf(token).one_time_use = 1 /\ RequestOf(token).used_count > 0 THEN "EXHAUSTED"
    ELSE "USABLE"

\* the gate's answer to a run that has left the gate: the page it ends with, or the form
GateAnswer(rec) == IF rec.pc = "done" THEN rec.outcome ELSE "USABLE"

\* C4: the token gate answers every token with exactly one of UNKNOWN_TOKEN (no request has
\* the token), CLOSED (status not open), EXHAUSTED (open, one-time use, usedCount > 0) and
\* USABLE (otherwise): a run, no other run interleaved, leaves the gate with that answer.
C4_GateClassifiesToken ==
    [][\A p \in PublicSessions :
          (pub[p].pc \in {"idle", "gate"} /\ pub'[p].pc \in {"done", "validate"})
             => /\ GateAnswer(pub'[p]) = ClaimedGateOutcome(pub'[p].token)
                /\ GateAnswer(pub'[p]) = "USABLE"
                      <=> \E r \in requests :
                             /\ r.token = pub'[p].token
                             /\ r.status = "open"
                             /\ (r.one_time_use = 0 \/ r.used_count = 0)]_vars

\* C4 witness: a run was answered EXHAUSTED
C4_Witness ==
    \E p \in PublicSessions : pub[p].pc = "done" /\ pub[p].outcome = "EXHAUSTED"

\* C5: with no concurrency, the accepted submission through an open one-time-use token leaves
\* usedCount at 1, and every later submission attempt through the token, whatever its phone,
\* ends EXHAUSTED and leaves the Submissions and usedCount as they were.
C5_OneTimeTokenExhausted ==
    [][\A p \in PublicSessions :
          /\ (pub[p].pc = "mark" /\ pub[p].one_time = 1)
                => \E r \in requests' : r.token = pub[p].token /\ r.used_count = 1
          /\ (/\ pub[p].pc = "gate" /\ pub[p].submit
              /\ \E r \in requests : /\ r.token = pub[p].token /\ r.status = "open"
                                     /\ r.one_time_use = 1 /\ r.used_count >= 1)
                => /\ pub'[p].pc = "done" /\ pub'[p].outcome = "EXHAUSTED"
                   /\ submissions' = submissions
                   /\ requests' = requests]_vars

\* C5 witness: a submit run ended EXHAUSTED on a one-time request that holds its one Submission
C5_Witness ==
    \E p \in PublicSessions :
        /\ pub[p].pc = "done" /\ pub[p].submit /\ pub[p].outcome = "EXHAUSTED"
        /\ \E r \in requests : /\ r.token = pub[p].token /\ r.one_time_use = 1 /\ r.used_count = 1
                               /\ Cardinality(list_submissions(r.id)) = 1

\* the request of the run of p is live and is not one-time use
NotOneTime(p) == \E r \in requests : r.id = pub[p].rid /\ r.one_time_use = 0

\* C6: with no concurrency, on a request that is not one-time use, an addSubmission whose
\* requestId and phone equal those of a stored Submission fails as a duplicate and leaves the
\* Submissions and usedCount unchanged; one with a phone not yet stored for it is accepted.
C6_DuplicatePhoneRejected ==
    [][\A p \in PublicSessions :
          /\ (/\ pub[p].pc = "validate" /\ pub'[p].pc # "validate" /\ NotOneTime(p)
              /\ pub'[p].outcome # "INVALID")
                => IF \E s \in submissions :
                          s.request_id = pub[p].rid /\ s.phone = pub'[p].phone
                   THEN /\ pub'[p].pc = "done" /\ pub'[p].outcome = "DUPLICATE"
                        /\ submissions' = submissions /\ requests' = requests
                   ELSE pub'[p].pc = "insert"
          /\ (pub[p].pc = "insert" /\ NotOneTime(p))
                => /\ \E s \in submissions' \ submissions :
                          s.request_id = pub[p].rid /\ s.phone = pub[p].phone
                   /\ pub'[p].pc = "mark"
          /\ (pub[p].pc = "mark" /\ NotOneTime(p))
                => pub'[p].pc = "done" /\ pub'[p].outcome = "ACCEPTED"]_vars

\* C6 witness: a run ended as a duplicate on a request that is not one-time use and holds
\* two Submissions with different phones
C6_Witness ==
    \E p \in PublicSessions :
        /\ pub[p].pc = "done" /\ pub[p].outcome = "DUPLICATE" /\ NotOneTime(p)
        /\ \E s1, s2 \in list_submissions(pub[p].rid) : s1.phone # s2.phone /\ s1.phone = pub[p].phone

\* C7: the duplicate check compares normalized phones: no request holds two Submissions whose
\* phones have the same digits in different formatting.
C7_NormalizedPhoneUnique ==
    \A s1, s2 \in submissions :
        (s1.request_id = s2.request_id /\ digits_only(s1.phone) = digits_only(s2.phone)) => s1 = s2

\* a live request has this id
Live(request_id) == \E r \in requests : r.id = request_id

\* C8: after deleteRequest(R) of a live request, listSubmissions(R) is empty and
\* getRequestByToken of R's token finds nothing, whatever submissions R had; the other
\* requests and their submissions are unchanged.
C8_DeleteRemovesRequestAndSubmissions ==
    [][\A r \in requests :
          delete_request(r.id)
             => /\ {s \in submissions' : s.request_id = r.id} = {}
                /\ {q \in requests' : q.token = r.token} = {}
                /\ {q \in requests' : q.id # r.id} = {q \in requests : q.id # r.id}
                /\ {s \in submissions' : s.request_id # r.id}
                      = {s \in submissions : s.request_id # r.id}]_vars

\* C8 witness: request 1 and its submission are gone, request 2 and its submission are there
C8_Witness ==
    /\ ~Live(1) /\ Live(2)
    /\ next_submission_id = 3
    /\ \A s \in submissions : s.request_id = 2
    /\ Cardinality(submissions) = 1

\* C9: after deleteRequest(id) the Setting store holds neither points_{id} nor qr_custom_{id}.
C9_DeleteRemovesSettings ==
    [][\A r \in requests :
          delete_request(r.id)
             => \A row \in settings' : row.key \notin {points_key(r.id), qr_custom_key(r.id)}]_vars

\* C10: in every reachable state no two live requests have the same token.
C10_TokenUnique ==
    \A r1, r2 \in requests : r1.token = r2.token => r1 = r2

\* C10 witness: a create run drew the token of a live request and failed, beside another
\* create run under way
C10_Witness ==
    \E a, b \in AdminSessions :
        /\ a # b
        /\ adm[a].pc = "done" /\ adm[a].outcome = "FAILED"
        /\ InFlight(adm[b])
        /\ requests # {}

\* C11: createRequest with a title that is non-empty after trimming stores a new Request with
\* status open and usedCount 0; with a title that is empty after trimming it fails with the
\* title error, creates no Request and writes no Setting.
C11_CreateRequestTitle ==
    [][\A a \in AdminSessions :
          /\ (adm[a].pc = "idle" /\ adm'[a].pc # "idle")
                => IF Strip(adm'[a].title) = <<>>
                   THEN /\ adm'[a].pc = "done" /\ adm'[a].outcome = "TITLE_REQUIRED"
                        /\ requests' = requests /\ settings' = settings
                   ELSE adm'[a].pc = "create"
          /\ (adm[a].pc = "create" /\ adm'[a].pc = "points")
                => /\ Strip(adm[a].title) # <<>>
                   /\ \E r \in requests' :
                         /\ r \notin requests /\ requests' = requests \cup {r}
                         /\ r.id = adm'[a].rid /\ r.token = adm'[a].token
                         /\ r.status = "open" /\ r.used_count = 0
          /\ (Strip(adm[a].title) = <<>> /\ adm'[a] # adm[a])
                => requests' = requests /\ settings' = settings]_vars

\* C11 witness: a run was refused for its blank title, beside a run that has stored its request
C11_Witness ==
    \E a, b \in AdminSessions :
        /\ adm[a].pc = "done" /\ adm[a].outcome = "TITLE_REQUIRED" /\ adm[a].title = <<" ">>
        /\ adm[b].pc = "points"
        /\ \E r \in requests : r.id = adm[b].rid /\ r.status = "open" /\ r.used_count = 0

\* the sum of the points of the ledger rows at the positions in idx
RECURSIVE PointsAt(_)
PointsAt(idx) ==
    IF idx = {} THEN 0
    ELSE LET i == CHOOSE j \in idx : TRUE IN reward_entries[i].points + PointsAt(idx \ {i})

\* the positions of the ledger rows of the identity (name, phone)
EntriesOf(name, phone) ==
    {i \in 1..Len(reward_entries) : reward_entries[i].name = name /\ reward_entries[i].phone = phone}

\* C12: for every identity, every earnedPoints >= 0 and every sequence of ledger adjustments,
\* positive or negative, the balance is max(0, earnedPoints + adjustmentSum(name, phone)): it
\* is never negative, and it is 0 whenever the adjustments sum to less than -earnedPoints.
C12_BalanceFloored ==
    \A v \in ReviewSessions : \A row \in rev[v].agg :
        LET earned == row["Earned Points"]
            adj == PointsAt(EntriesOf(row["Name"], row["Phone"]))
        IN  /\ earned >= 0
            /\ row["Balance"] >= 0
            /\ row["Balance"] = (IF earned + adj >= 0 THEN earned + adj ELSE 0)
            /\ adj < -earned => row["Balance"] = 0

\* C12 witness: the balance of an identity with earned points is 0, two adjustments of the
\* ledger summing to less than minus the earned points
C12_Witness ==
    \E v \in ReviewSessions : \E row \in rev[v].agg :
        /\ row["Earned Points"] > 0
        /\ Cardinality(EntriesOf(row["Name"], row["Phone"])) = 2
        /\ PointsAt(EntriesOf(row["Name"], row["Phone"])) < -row["Earned Points"]
        /\ row["Balance"] = 0

\* C13: Pay-in-full for an identity with balance B > 0 appends one RewardEntry of -B, "paid",
\* and leaves the balance 0; at balance 0 it appends nothing. It is called from the Reward
\* Actions form of the review page: a review run that lists an identity with a balance above 0
\* goes on to that form.
C13_PayInFullZeroesBalance ==
    \A v \in ReviewSessions :
        (rev[v].pc = "done" /\ \E row \in rev[v].agg : row["Balance"] > 0)
            => rev[v].outcome = "REWARD_ACTIONS"

\* C14: wipeAll deletes data only when the caller supplies the explicit confirmation: every
\* entry point that can run the wipe (the Danger Zone button, clear_db.py) leaves the
\* requests, submissions and settings unchanged when no confirmation is given.
C14_WipeNeedsConfirmation ==
    [][(\/ ClearDbMain
        \/ \E confirm_text \in ConfirmInputs, perform_backup \in BOOLEAN :
              ~Confirmed(confirm_text, perform_backup) /\ AdminWipe(confirm_text, perform_backup))
          => UNCHANGED <<requests, submissions, settings>>]_vars

\* C15: updateStatus, setOneTimeUse and deleteRequest called with a request id that no live
\* request has fail with NotFoundError and leave the store unchanged: a create run whose
\* request was deleted before its set_one_time_use call ends there with the error.
C15_MissingIdNotFound ==
    [][\A a \in AdminSessions :
          (adm[a].pc = "otu" /\ adm'[a].pc # "otu" /\ ~Live(adm[a].rid))
             => /\ adm'[a].pc = "done" /\ adm'[a].outcome = "NotFoundError"
                /\ UNCHANGED db]_vars

\* C18: no Submission is accepted for a closed request: in every interleaving of a public
\* submission with the admin's updateStatus(id, closed), a Submission is inserted, and
\* usedCount advanced, only when the request's status is open at the moment of the insert.
C18_NoInsertWhenClosed ==
    [][\A p \in PublicSessions :
          /\ (pub[p].pc = "insert" /\ pub'[p].pc = "mark")
                => \A r \in requests : r.id = pub[p].rid => r.status = "open"
          /\ (pub[p].pc = "mark" /\ pub'[p].pc = "done")
                => \A r \in requests : r.token = pub[p].token => r.status = "open"]_vars

\* C19: CLOSED and EXHAUSTED are terminal for the gate: no step of a public session (opening
\* the form, submitting with any fields) makes a token that is CLOSED or EXHAUSTED USABLE
\* again, and no step of anyone decreases a request's usedCount.
C19_ClosedExhaustedTerminal ==
    [][/\ pub' # pub
          => \A token \in Tokens :
                ClaimedGateOutcome(token) \in {"CLOSED", "EXHAUSTED"}
                   => ClaimedGateOutcome(token)' \in {"CLOSED", "EXHAUSTED"}
       /\ \A r \in requests :
             (\E q \in requests' : q.id = r.id)
                => \A q \in requests' : q.id = r.id => q.used_count >= r.used_count]_vars

\* C19 witness: a public session has ended a submit run on a closed token beside an exhausted
\* one-time token
C19_Witness ==
    /\ \E p \in PublicSessions : pub[p].pc = "done" /\ pub[p].submit /\ pub[p].outcome = "CLOSED"
    /\ \E token \in Tokens : ClaimedGateOutcome(token) = "EXHAUSTED"

\* C20: in every reachable state, under every interleaving of a public submission with
\* deleteRequest on the same request, each stored Submission's requestId is the id of a live
\* Request.
C20_SubmissionsOfLiveRequests ==
    \A s \in submissions : \E r \in requests : r.id = s.request_id

\* the rule of the claim on trimmed fields: name of 2 to 100 characters; phone of 7 to 20
\* characters among digits, "+", "-", parentheses and blanks, 7 to 20 of them digits; email
\* empty, or localpart@domain.tld of at most 100 characters
ClaimedFieldsRule(name, phone, email) ==
    /\ Len(name) >= 2 /\ Len(name) <= 100
    /\ Len(phone) >= 7 /\ Len(phone) <= 20
    /\ \A i \in 1..Len(phone) : phone[i] \in Digits \cup {"+", "-", "(", ")", " "}
    /\ Cardinality({i \in 1..Len(phone) : phone[i] \in Digits}) >= 7
    /\ Cardinality({i \in 1..Len(phone) : phone[i] \in Digits}) <= 20
    /\ \/ email = <<>>
       \/ /\ Len(email) <= 100
          /\ \A i \in 1..Len(email) : email[i] # " "
          /\ \E at \in 2..Len(email) :
                /\ email[at] = "@"
                /\ \A i \in 1..Len(email) : email[i] = "@" => i = at
                /\ \E dot \in (at + 2)..(Len(email) - 1) : email[dot] = "."

\* the string has no blank at either end
Trimmed(s) == s = <<>> \/ (s[1] # " " /\ s[Len(s)] # " ")

\* C16: a public submission is accepted only when its trimmed fields meet the rule above; in
\* every other case the attempt fails with the validation error, no Submission is inserted
\* and the request's usedCount is unchanged.
C16_ValidationRules ==
    [][\A p \in PublicSessions :
          /\ (pub[p].pc = "validate" /\ pub'[p].pc # "validate")
                => IF pub'[p].pc = "done" /\ pub'[p].outcome = "INVALID"
                   THEN /\ ~ClaimedFieldsRule(Strip(pub'[p].name), Strip(pub'[p].phone),
                                              Strip(pub'[p].email))
                        /\ submissions' = submissions /\ requests' = requests
                   ELSE /\ ClaimedFieldsRule(pub'[p].name, pub'[p].phone, pub'[p].email)
                        /\ Trimmed(pub'[p].name) /\ Trimmed(pub'[p].phone) /\ Trimmed(pub'[p].email)
          /\ \A s \in submissions' \ submissions :
                /\ pub[p].pc = "insert" => ClaimedFieldsRule(s.name, s.phone, s.email)
                /\ \E q \in PublicSessions :
                      /\ pub[q].pc = "insert"
                      /\ s.name = pub[q].name /\ s.phone = pub[q].phone /\ s.email = pub[q].email]_vars

\* C16 witness: a run was refused for a phone of allowed characters with too few digits, and
\* a Submission with an email and one with a phone of 20 digits are stored
C16_Witness ==
    /\ \E p \in PublicSessions :
          /\ pub[p].pc = "done" /\ pub[p].outcome = "INVALID"
          /\ pub[p].phone = <<"5", "5", "5", "-", "(", "1", "2", ")">>
    /\ \E s \in submissions : s.email # <<>>
    /\ \E s \in submissions : Len(s.phone) = 20

\* the points of a request: the integer its setting points_{id} holds
PointsOfRequest(request_id) == req_points(get_setting(points_key(request_id), <<"0">>))

\* the sum of the points of the requests of the submissions in subs
RECURSIVE PointsOver(_)
PointsOver(subs) ==
    IF subs = {} THEN 0
    ELSE LET s == CHOOSE x \in subs : TRUE
         IN  PointsOfRequest(s.request_id) + PointsOver(subs \ {s})

====
